---- MODULE Spec2Model ----
(***************************************************************************)
(* Model of build-from-airtable.mjs: a one-shot generator that checks two  *)
(* credentials, fetches the Globals and Sections tables, renders one HTML  *)
(* document by string templating and writes it to public/index.html.       *)
(*                                                                         *)
(* JavaScript strings are sequences of atoms.  Text that comes from the    *)
(* data source is made of one-character atoms; the constant pieces of the  *)
(* template literals (tags, indentation) are single atoms such as "<ul>".  *)
(***************************************************************************)
EXTENDS Integers, Sequences, FiniteSets

VARIABLES
    pc,              \* position of the module / of main()
    token,           \* process.env.AIRTABLE_TOKEN
    baseId,          \* process.env.AIRTABLE_BASE_ID
    requests,        \* tables requested with fetch(), in order
    globalsRecords,  \* array returned by fetchTable(GLOBALS_TABLE)
    sectionsRecords, \* array object returned by fetchTable(SECTIONS_TABLE)
    fetched,         \* history: the Sections array as it came back from the fetch
    value,           \* argument of the escapeHtml call under test
    result,          \* string produced by the last escapeHtml / renderCards call
    heroTitle,       \* const heroTitle of main()
    seoTitle,        \* const seoTitle of main()
    html,            \* const html of main()
    publicDir,       \* file system: what the path "public" is
    indexFile,       \* file system: content of public/index.html
    fsOps,           \* history: file-system changes made by this run
    exitCode,        \* exit status of the process
    stderr,          \* history: which console.error call has run
    statuses,        \* history: how each request of `requests` came back
    disk0            \* history: publicDir and indexFile before the run

vars == << pc, token, baseId, requests, globalsRecords, sectionsRecords, fetched,
           value, result, heroTitle, seoTitle, html, publicDir, indexFile, fsOps,
           exitCode, stderr, statuses, disk0 >>

----------------------------------------------------------------------------
(* Bounds *)

MaxLen == 3
MaxSections == 3
MaxOrder == 2
MaxMainSections == 2

----------------------------------------------------------------------------
(* JavaScript values *)

Undefined == [t |-> "undefined", s |-> << >>, n |-> 0, b |-> FALSE]
Null == [t |-> "null", s |-> << >>, n |-> 0, b |-> FALSE]
Str(s) == [t |-> "string", s |-> s, n |-> 0, b |-> FALSE]
Num(n) == [t |-> "number", s |-> << >>, n |-> n, b |-> FALSE]
Bool(b) == [t |-> "boolean", s |-> << >>, n |-> 0, b |-> b]

\* ToBoolean: what `if`, `||`, `?:` and filter(Boolean) test.
Truthy(v) ==
    CASE v.t = "undefined" -> FALSE
      [] v.t = "null" -> FALSE
      [] v.t = "string" -> v.s # << >>
      [] v.t = "number" -> v.n # 0
      [] v.t = "boolean" -> v.b

\* a || b
Or(a, b) == IF Truthy(a) THEN a ELSE b

\* a ?? b
Nullish(a, b) == IF a.t \in {"undefined", "null"} THEN b ELSE a

Digit(d) == <<"0", "1", "2", "3", "4", "5", "6", "7", "8", "9">>[d + 1]

RECURSIVE Digits(_)
Digits(n) == IF n < 10 THEN << Digit(n) >> ELSE Digits(n \div 10) \o << Digit(n % 10) >>

\* String(value)
StringOf(v) ==
    CASE v.t = "undefined" -> <<"u", "n", "d", "e", "f", "i", "n", "e", "d">>
      [] v.t = "null" -> <<"n", "u", "l", "l">>
      [] v.t = "string" -> v.s
      [] v.t = "number" -> IF v.n < 0 THEN <<"-">> \o Digits(-v.n) ELSE Digits(v.n)
      [] v.t = "boolean" -> IF v.b THEN <<"t", "r", "u", "e">>
                            ELSE <<"f", "a", "l", "s", "e">>

----------------------------------------------------------------------------
(* escapeHtml *)

\* str.replace(/c/g, rep) for a one-character pattern c
RECURSIVE ReplaceAll(_, _, _)
ReplaceAll(s, c, rep) ==
    IF s = << >> THEN << >>
    ELSE (IF Head(s) = c THEN rep ELSE << Head(s) >>) \o ReplaceAll(Tail(s), c, rep)

AmpEntity == <<"&", "a", "m", "p", ";">>
LtEntity == <<"&", "l", "t", ";">>
GtEntity == <<"&", "g", "t", ";">>
QuotEntity == <<"&", "q", "u", "o", "t", ";">>

\* Mutant: the ampersand pass runs last instead of first.
escapeHtmlAmpLast(v) ==
    LET arg == IF v = Undefined THEN Str(<< >>) ELSE v
        s0 == StringOf(arg)
        s1 == ReplaceAll(s0, "<", LtEntity)
        s2 == ReplaceAll(s1, ">", GtEntity)
        s3 == ReplaceAll(s2, "\"", QuotEntity)
    IN  ReplaceAll(s3, "&", AmpEntity)

\* function escapeHtml(value = ""): the default applies to undefined only.
escapeHtml(v) ==
    LET arg == IF v = Undefined THEN Str(<< >>) ELSE v
        s0 == StringOf(arg)
        s1 == ReplaceAll(s0, "&", AmpEntity)
        s2 == ReplaceAll(s1, "<", LtEntity)
        s3 == ReplaceAll(s2, ">", GtEntity)
    IN  ReplaceAll(s3, "\"", QuotEntity)

----------------------------------------------------------------------------
(* renderCards *)

\* fields of a Sections record; a key the record lacks reads as Undefined
SectionFields(order, title, body, highlight, b1, b2, b3) ==
    [Order |-> order, Title |-> title, Body |-> body, Highlight |-> highlight,
     Bullet1 |-> b1, Bullet2 |-> b2, Bullet3 |-> b3]

\* (a, b) => (a.fields.Order || 0) - (b.fields.Order || 0)
compareOrder(a, b) == Or(a.Order, Num(0)).n - Or(b.Order, Num(0)).n

\* Mutant: an element is placed before the elements it compares equal to.
RECURSIVE InsertBeforeEqual(_, _)
InsertBeforeEqual(sorted, x) ==
    IF sorted = << >> THEN << x >>
    ELSE IF compareOrder(Head(sorted), x) >= 0 THEN << x >> \o sorted
    ELSE << Head(sorted) >> \o InsertBeforeEqual(Tail(sorted), x)

\* One step of the stable sort: x goes after every element that does not
\* compare greater than it.
RECURSIVE InsertSorted(_, _)
InsertSorted(sorted, x) ==
    IF sorted = << >> THEN << x >>
    ELSE IF compareOrder(Head(sorted), x) > 0 THEN << x >> \o sorted
    ELSE << Head(sorted) >> \o InsertSorted(Tail(sorted), x)

\* sections.sort(compare): Array.prototype.sort is stable and sorts the array
\* object in place; this is the content of that array after the call.
RECURSIVE sortSections(_)
sortSections(sections) ==
    IF sections = << >> THEN << >>
    ELSE InsertSorted(sortSections(SubSeq(sections, 1, Len(sections) - 1)),
                      sections[Len(sections)])

CardText == <<"c", "a", "r", "d">>
HighlightSuffix ==
    <<" ", "c", "a", "r", "d", " ", "h", "i", "g", "h", "l", "i", "g", "h", "t">>

SectionOpen == "\n    <section class=\""
AttrClose == "\">\n      "
H2Open == "<h2>"
H2Close == "</h2>"
POpen == "<p>"
PClose == "</p>"
UlOpen == "<ul>"
UlClose == "</ul>"
LiOpen == "<li>"
LiClose == "</li>"
Indent == "\n      "
SectionClose == "\n    </section>"
Newline == "\n"

\* const highlightClass = f.Highlight ? " card highlight" : ""
highlightClass(f) == IF Truthy(f.Highlight) THEN HighlightSuffix ELSE << >>

\* [b1, b2, b3].filter(Boolean)
RECURSIVE FilterBoolean(_)
FilterBoolean(vals) ==
    IF vals = << >> THEN << >>
    ELSE (IF Truthy(Head(vals)) THEN << Head(vals) >> ELSE << >>)
         \o FilterBoolean(Tail(vals))

\* .map((b) => `<li>${escapeHtml(b)}</li>`).join("")
RECURSIVE ListItems(_)
ListItems(vals) ==
    IF vals = << >> THEN << >>
    ELSE << LiOpen >> \o escapeHtml(Head(vals)) \o << LiClose >> \o ListItems(Tail(vals))

\* Mutant: the list is wrapped whether or not it has an item.
bulletsHtmlAlwaysUl(f) ==
    << UlOpen >> \o ListItems(FilterBoolean(<< f.Bullet1, f.Bullet2, f.Bullet3 >>))
    \o << UlClose >>

\* const bulletsHtml = bullets ? `<ul>${bullets}</ul>` : ""
bulletsHtml(f) ==
    LET bullets == ListItems(FilterBoolean(<< f.Bullet1, f.Bullet2, f.Bullet3 >>))
    IN  IF bullets # << >> THEN << UlOpen >> \o bullets \o << UlClose >> ELSE << >>

\* the callback of .map((rec) => ...)
renderCard(f) ==
    LET title == escapeHtml(Nullish(f.Title, Str(<< >>)))
        body == escapeHtml(Nullish(f.Body, Str(<< >>)))
    IN  << SectionOpen >> \o CardText \o highlightClass(f) \o << AttrClose >>
        \o << H2Open >> \o title \o << H2Close, Indent >>
        \o << POpen >> \o body \o << PClose, Indent >>
        \o bulletsHtml(f) \o << SectionClose >>

\* .join("\n")
RECURSIVE JoinNewline(_)
JoinNewline(parts) ==
    IF parts = << >> THEN << >>
    ELSE IF Len(parts) = 1 THEN parts[1]
    ELSE parts[1] \o << Newline >> \o JoinNewline(Tail(parts))

\* the string renderCards(sections) returns
renderCards(sections) ==
    LET sorted == sortSections(sections)
    IN  JoinNewline([i \in 1..Len(sorted) |-> renderCard(sorted[i])])

----------------------------------------------------------------------------
(* main: page assembly *)

\* fields of the Globals record; a key the record lacks reads as Undefined
GlobalFields(hero, subtitle, footer, seo, description) ==
    [HeroTitle |-> hero, HeroSubtitle |-> subtitle, FooterText |-> footer,
     SEOTitle |-> seo, SEODescription |-> description]

NoFields == GlobalFields(Undefined, Undefined, Undefined, Undefined, Undefined)

\* const globals = globalsRecords[0]?.fields ?? {}
globalsOf(records) == IF records = << >> THEN NoFields ELSE records[1]

DefaultTitle == <<"S", "i", "m", "p", "l", "e", " ", "W", "e", "b">>

\* escapeHtml(globals[key] || "")
escapedOrEmpty(v) == escapeHtml(Or(v, Str(<< >>)))

\* Mutant: the fallbacks are chained with ?? instead of ||.
seoTitleNullish(globals, hero) == escapeHtml(globals.SEOTitle)

\* escapeHtml(globals["SEO Title"]) || heroTitle || "Simple Web"
seoTitleOf(globals, hero) ==
    LET escaped == escapeHtml(globals.SEOTitle)
    IN  IF escaped # << >> THEN escaped
        ELSE IF hero # << >> THEN hero
        ELSE DefaultTitle

DocOpen == "<!DOCTYPE html>\n<html lang=\"en\">\n<head>\n  <meta charset=\"UTF-8\" />\n  <meta name=\"viewport\" content=\"width=device-width, initial-scale=1.0\" />\n  "
TitleOpen == "<title>"
TitleClose == "</title>"
MetaOpen == "\n  <meta name=\"description\" content=\""
MetaClose == "\">\n  <link rel=\"stylesheet\" href=\"styles.css\" />\n</head>\n<body>\n  <header class=\"site-header\">\n    <div class=\"container\">\n      "
H1Open == "<h1>"
H1Close == "</h1>"
SubtitleOpen == "\n      <p class=\"subtitle\">"
SubtitleClose == "</p>\n    </div>\n  </header>\n\n  "
MainOpen == "<main class=\"container\">\n    "
MainClose == "\n  </main>"
FooterOpen == "\n\n  <footer class=\"site-footer\">\n    <div class=\"container\">\n      <p>"
FooterClose == "</p>\n    </div>\n  </footer>\n</body>\n</html>"

\* the template literal assigned to html
htmlOf(globals, sections) ==
    LET hero == escapedOrEmpty(globals.HeroTitle)
    IN  << DocOpen, TitleOpen >> \o seoTitleOf(globals, hero) \o << TitleClose >>
        \o << MetaOpen >> \o escapedOrEmpty(globals.SEODescription) \o << MetaClose >>
        \o << H1Open >> \o hero \o << H1Close >>
        \o << SubtitleOpen >> \o escapedOrEmpty(globals.HeroSubtitle)
        \o << SubtitleClose >>
        \o << MainOpen >> \o renderCards(sections) \o << MainClose >>
        \o << FooterOpen >> \o escapedOrEmpty(globals.FooterText) \o << FooterClose >>

----------------------------------------------------------------------------
(* Inputs *)

Chars == {"&", "<", ">", "\"", "a"}
Texts == UNION {[1..n -> Chars] : n \in 0..MaxLen}

EnvVals == {Undefined, Str(<< >>), Str(<<"k">>)}

NoFile == [exists |-> FALSE, content |-> << >>]
File(content) == [exists |-> TRUE, content |-> content]
OldFile == File(<<"old">>)

\* what the working directory holds before the run
Disks ==
    {<<"absent", NoFile>>, <<"file", NoFile>>, <<"dir", NoFile>>, <<"dir", OldFile>>}

TitleVals == {Undefined, Null, Str(<< >>), Str(<<"a">>), Str(<<"<">>)}
OtherVals == {Undefined, Str(<<"\"">>)}

GlobalsInputs ==
    {<< >>} \cup
    {<< GlobalFields(hero, other, other, seo, other) >> :
        hero \in TitleVals, seo \in TitleVals, other \in OtherVals}

PlainSection(order, title) ==
    SectionFields(order, title, Undefined, Undefined, Undefined, Undefined, Undefined)

MainSections ==
    {PlainSection(order, Str(<<"a">>)) : order \in {Undefined, Num(1)}}
SectionsInputs == UNION {[1..n -> MainSections] : n \in 0..MaxMainSections}

\* what fetch() can come back with: resolved with res.ok, resolved with
\* !res.ok, or rejected
Responses(inputs) ==
    {[status |-> "ok", records |-> r] : r \in inputs}
    \cup {[status |-> st, records |-> << >>] : st \in {"notOk", "rejected"}}

OrderVals == {Undefined} \cup {Num(k) : k \in -1..MaxOrder}
SortSections == {PlainSection(order, Str(<< t >>)) : order \in OrderVals, t \in {"a", "b"}}
OrderedInputs == UNION {[1..n -> SortSections] : n \in 0..MaxSections}

TextVals == {Undefined, Null} \cup {Str(s) : s \in Texts}
HighlightVals == {Undefined, Null, Bool(FALSE), Bool(TRUE), Num(1)}
BulletVals == {Undefined, Null, Str(<< >>), Str(<<"a">>), Str(<<"<">>)}
TitleSections ==
    {SectionFields(Undefined, t, Undefined, Undefined, Undefined, Undefined, Undefined) :
        t \in TextVals}
FieldSections ==
    {SectionFields(Num(1), Str(<<"a">>), Str(<<"&">>), h, b1, b2, b3) :
        h \in HighlightVals, b1 \in BulletVals, b2 \in BulletVals, b3 \in BulletVals}
SingleInputs == {<< f >> : f \in TitleSections \cup FieldSections}

----------------------------------------------------------------------------
(* The run *)

Idle ==
    /\ requests = << >>
    /\ globalsRecords = << >>
    /\ heroTitle = << >>
    /\ seoTitle = << >>
    /\ html = << >>
    /\ fsOps = << >>
    /\ exitCode = -1
    /\ stderr = "none"
    /\ statuses = << >>

Init ==
    /\ pc = "start"
    /\ token \in EnvVals
    /\ baseId \in EnvVals
    /\ disk0 \in Disks
    /\ publicDir = disk0[1]
    /\ indexFile = disk0[2]
    /\ sectionsRecords = << >>
    /\ fetched = << >>
    /\ value = Undefined
    /\ result = << >>
    /\ Idle

\* Mutant: the check passes as soon as one of the two variables is set.
credentialsMissingBoth(tok, base) == ~Truthy(tok) /\ ~Truthy(base)

\* !AIRTABLE_TOKEN || !AIRTABLE_BASE_ID
credentialsMissing(tok, base) == ~Truthy(tok) \/ ~Truthy(base)

\* Mutant: fetchTable lacks the `if (!res.ok) throw`.
fetchThrowsOnRejectOnly(res) == res.status = "rejected"

\* fetchTable throws when fetch() rejects or when !res.ok
fetchThrows(res) == res.status # "ok"

\* module top level: the credential check, then the call of main()
CheckCredentials ==
    /\ pc = "start"
    /\ IF credentialsMissing(token, baseId)
       THEN /\ stderr' = "missing-credentials"
            /\ exitCode' = 1
            /\ pc' = "exited"
       ELSE /\ pc' = "fetchGlobals"
            /\ UNCHANGED << stderr, exitCode >>
    /\ UNCHANGED << token, baseId, requests, globalsRecords, sectionsRecords, fetched,
                    value, result, heroTitle, seoTitle, html, publicDir, indexFile,
                    fsOps, statuses, disk0 >>

\* const globalsRecords = await fetchTable(GLOBALS_TABLE, "?maxRecords=1")
FetchGlobals ==
    /\ pc = "fetchGlobals"
    /\ requests' = Append(requests, "Globals")
    /\ \E res \in Responses(GlobalsInputs) :
          /\ statuses' = Append(statuses, res.status)
          /\ IF fetchThrows(res)
             THEN /\ pc' = "catch"
                  /\ UNCHANGED globalsRecords
             ELSE /\ globalsRecords' = res.records
                  /\ pc' = "fetchSections"
    /\ UNCHANGED << token, baseId, sectionsRecords, fetched, value, result, heroTitle,
                    seoTitle, html, publicDir, indexFile, fsOps, exitCode, stderr, disk0 >>

\* const sectionsRecords = await fetchTable(SECTIONS_TABLE)
FetchSections ==
    /\ pc = "fetchSections"
    /\ requests' = Append(requests, "Sections")
    /\ \E res \in Responses(SectionsInputs) :
          /\ statuses' = Append(statuses, res.status)
          /\ IF fetchThrows(res)
             THEN /\ pc' = "catch"
                  /\ UNCHANGED << sectionsRecords, fetched >>
             ELSE /\ sectionsRecords' = res.records
                  /\ fetched' = res.records
                  /\ pc' = "assemble"
    /\ UNCHANGED << token, baseId, globalsRecords, value, result, heroTitle, seoTitle,
                    html, publicDir, indexFile, fsOps, exitCode, stderr, disk0 >>

\* from `const globals` to the end of the template literal; renderCards sorts
\* the sectionsRecords array in place
Assemble ==
    /\ pc = "assemble"
    /\ LET globals == globalsOf(globalsRecords)
           hero == escapedOrEmpty(globals.HeroTitle)
       IN  /\ heroTitle' = hero
           /\ seoTitle' = seoTitleOf(globals, hero)
           /\ html' = htmlOf(globals, sectionsRecords)
    /\ result' = renderCards(sectionsRecords)
    /\ sectionsRecords' = sortSections(sectionsRecords)
    /\ pc' = "mkdir"
    /\ UNCHANGED << token, baseId, requests, globalsRecords, fetched, value, publicDir,
                    indexFile, fsOps, exitCode, stderr, statuses, disk0 >>

\* await fs.mkdir("public", { recursive: true })
Mkdir ==
    /\ pc = "mkdir"
    /\ \/ /\ publicDir = "dir"
          /\ pc' = "writeFile"
          /\ UNCHANGED << publicDir, fsOps >>
       \/ /\ publicDir = "absent"
          /\ publicDir' = "dir"
          /\ fsOps' = Append(fsOps, "mkdir")
          /\ pc' = "writeFile"
       \/ /\ publicDir # "dir"
          /\ pc' = "catch"
          /\ UNCHANGED << publicDir, fsOps >>
    /\ UNCHANGED << token, baseId, requests, globalsRecords, sectionsRecords, fetched,
                    value, result, heroTitle, seoTitle, html, indexFile, exitCode,
                    stderr, statuses, disk0 >>

\* await fs.writeFile("public/index.html", html, "utf8"): the file is opened
\* for writing, which truncates it, and the data is written in one or more
\* write calls; the promise rejects if the open or a write fails
WriteFile ==
    /\ pc = "writeFile"
    /\ \/ /\ pc' = "catch"
          /\ UNCHANGED << indexFile, fsOps >>
       \/ /\ \E k \in 0..(Len(html) - 1) : indexFile' = File(SubSeq(html, 1, k))
          /\ fsOps' = Append(fsOps, "write")
          /\ pc' = "catch"
       \/ /\ indexFile' = File(html)
          /\ fsOps' = Append(fsOps, "write")
          /\ pc' = "done"
    /\ UNCHANGED << token, baseId, requests, globalsRecords, sectionsRecords, fetched,
                    value, result, heroTitle, seoTitle, html, publicDir, exitCode,
                    stderr, statuses, disk0 >>

\* console.log("... generated"); main() resolves and the process ends
Finish ==
    /\ pc = "done"
    /\ exitCode' = 0
    /\ pc' = "exited"
    /\ UNCHANGED << token, baseId, requests, globalsRecords, sectionsRecords, fetched,
                    value, result, heroTitle, seoTitle, html, publicDir, indexFile,
                    fsOps, stderr, statuses, disk0 >>

\* main().catch((err) => { console.error(...); process.exit(1) })
CatchHandler ==
    /\ pc = "catch"
    /\ stderr' = "build-failed"
    /\ exitCode' = 1
    /\ pc' = "exited"
    /\ UNCHANGED << token, baseId, requests, globalsRecords, sectionsRecords, fetched,
                    value, result, heroTitle, seoTitle, html, publicDir, indexFile,
                    fsOps, statuses, disk0 >>

Next ==
    \/ CheckCredentials
    \/ FetchGlobals
    \/ FetchSections
    \/ Assemble
    \/ Mkdir
    \/ WriteFile
    \/ Finish
    \/ CatchHandler

Spec == Init /\ [][Next]_vars

----------------------------------------------------------------------------
(* escapeHtml and renderCards called on their own *)

InitUnits ==
    /\ token = Str(<<"k">>)
    /\ baseId = Str(<<"k">>)
    /\ publicDir = "absent"
    /\ indexFile = NoFile
    /\ disk0 = << publicDir, indexFile >>
    /\ Idle
    /\ result = << >>
    /\ \/ /\ pc = "escape"
          /\ value \in TextVals
          /\ sectionsRecords = << >>
          /\ fetched = << >>
       \/ /\ pc = "cards"
          /\ value = Undefined
          /\ sectionsRecords \in OrderedInputs \cup SingleInputs
          /\ fetched = sectionsRecords

\* result = escapeHtml(value)
EscapeCall ==
    /\ pc = "escape"
    /\ result' = escapeHtml(value)
    /\ pc' = "escaped"
    /\ UNCHANGED << token, baseId, requests, globalsRecords, sectionsRecords, fetched,
                    value, heroTitle, seoTitle, html, publicDir, indexFile, fsOps,
                    exitCode, stderr, statuses, disk0 >>

\* result = renderCards(sectionsRecords)
RenderCardsCall ==
    /\ pc = "cards"
    /\ result' = renderCards(sectionsRecords)
    /\ sectionsRecords' = sortSections(sectionsRecords)
    /\ pc' = "rendered"
    /\ UNCHANGED << token, baseId, requests, globalsRecords, fetched, value, heroTitle,
                    seoTitle, html, publicDir, indexFile, fsOps, exitCode, stderr,
                    statuses, disk0 >>

NextUnits == EscapeCall \/ RenderCardsCall

SpecUnits == InitUnits /\ [][NextUnits]_vars

----------------------------------------------------------------------------
(* Vocabulary of the properties *)

\* position of the first occurrence of atom in seq at or after position from
\* (Len(seq) + 1 when there is none)
RECURSIVE IndexFrom(_, _, _)
IndexFrom(seq, atom, from) ==
    IF from > Len(seq) THEN Len(seq) + 1
    ELSE IF seq[from] = atom THEN from
    ELSE IndexFrom(seq, atom, from + 1)

\* what stands between the first `open` and the first `close` after it
Between(seq, open, close) ==
    LET i == IndexFrom(seq, open, 1)
        j == IndexFrom(seq, close, i + 1)
    IN  SubSeq(seq, i + 1, j - 1)

Count(seq, atom) == Cardinality({i \in DOMAIN seq : seq[i] = atom})

\* the entity the contract gives for one character
EntityOf(c) ==
    CASE c = "&" -> AmpEntity
      [] c = "<" -> LtEntity
      [] c = ">" -> GtEntity
      [] c = "\"" -> QuotEntity
      [] OTHER -> << c >>

\* the text with every character replaced by its entity, in one pass
RECURSIVE EscapedText(_)
EscapedText(s) == IF s = << >> THEN << >> ELSE EntityOf(Head(s)) \o EscapedText(Tail(s))

IsText(v) == v.t = "string"
NonEmptyText(v) == v.t = "string" /\ v.s # << >>
Missing(v) == v = Undefined \/ v = Str(<< >>)

\* the order field with an absent one counted as 0
OrderKey(f) == IF f.Order = Undefined THEN 0 ELSE f.Order.n

\* the rearrangements of 1..n that put the keys in ascending order and keep
\* records with equal keys in their original relative position
StableOrders(seq) ==
    {p \in [DOMAIN seq -> DOMAIN seq] :
        /\ \A i, j \in DOMAIN seq : i # j => p[i] # p[j]
        /\ \A i, j \in DOMAIN seq :
              i < j => \/ OrderKey(seq[p[i]]) < OrderKey(seq[p[j]])
                       \/ OrderKey(seq[p[i]]) = OrderKey(seq[p[j]]) /\ p[i] < p[j]}

\* the <section> blocks of a rendered fragment, as the text between each
\* opening and closing of a section
RECURSIVE Blocks(_)
Blocks(out) ==
    LET i == IndexFrom(out, SectionOpen, 1)
        j == IndexFrom(out, SectionClose, i + 1)
    IN  IF i > Len(out) THEN << >>
        ELSE << SubSeq(out, i, j) >> \o Blocks(SubSeq(out, j + 1, Len(out)))

Assembled == pc \in {"mkdir", "writeFile", "done", "catch", "exited"} /\ html # << >>

----------------------------------------------------------------------------
(* Properties *)

\* C1: when AIRTABLE_TOKEN or AIRTABLE_BASE_ID is absent or empty, the run
\* never requests a table, never changes the directory or the file, and its
\* only step ends the process with exit status 1.
MissingCredentialsExit ==
    (Missing(token) \/ Missing(baseId)) =>
        /\ requests = << >>
        /\ << publicDir, indexFile >> = disk0
        /\ fsOps = << >>
        /\ pc \in {"start", "exited"}
        /\ pc = "exited" => exitCode = 1 /\ stderr = "missing-credentials"

MissingCredentialsExitWitness ==
    /\ pc = "exited"
    /\ token = Str(<<"k">>)
    /\ baseId = Undefined
    /\ exitCode = 1
    /\ disk0 = <<"dir", OldFile>>

\* C2: no table is requested twice, and once a request has come back with a
\* non-success status it is the last request of the run, the file
\* public/index.html keeps its content, and the run is in the top-level
\* handler or has exited with status 1.
FetchFailureAborts ==
    /\ \A i, j \in DOMAIN requests : i # j => requests[i] # requests[j]
    /\ Len(statuses) = Len(requests)
    /\ \A i \in DOMAIN statuses :
          statuses[i] = "notOk" =>
              /\ i = Len(requests)
              /\ indexFile = disk0[2]
              /\ fsOps = << >>
              /\ pc \in {"catch", "exited"}
              /\ pc = "exited" => exitCode = 1

FetchFailureAbortsWitness ==
    /\ pc = "exited"
    /\ requests = <<"Globals", "Sections">>
    /\ statuses = <<"ok", "notOk">>
    /\ exitCode = 1
    /\ indexFile = OldFile

\* C3: a terminated run has either written the complete document to
\* public/index.html or left the file system as it found it, and every run
\* that hit an error has exited with a non-zero status.
AllOrNothing ==
    pc = "exited" =>
        /\ \/ html # << >> /\ indexFile = File(html) /\ exitCode = 0
           \/ << publicDir, indexFile >> = disk0
        /\ stderr # "none" => exitCode # 0

\* C4: renderCards emits one <section> block per record, and the blocks are
\* the records' cards in ascending order of `order`, an absent order counted
\* as 0 and records of equal order kept in their fetched order.
CardsInStableOrder ==
    pc = "rendered" =>
        /\ Count(result, SectionOpen) = Len(fetched)
        /\ Len(Blocks(result)) = Len(fetched)
        /\ \E p \in StableOrders(fetched) :
              \A i \in DOMAIN fetched : Blocks(result)[i] = renderCard(fetched[p[i]])

CardsInStableOrderWitness ==
    /\ pc = "rendered"
    /\ Len(fetched) = 3
    /\ fetched[1].Order = Num(2)
    /\ fetched[2] = PlainSection(Undefined, Str(<<"b">>))
    /\ fetched[3] = PlainSection(Num(0), Str(<<"a">>))
    /\ Between(Blocks(result)[1], H2Open, H2Close) = <<"b">>
    /\ Between(Blocks(result)[2], H2Open, H2Close) = <<"a">>

\* C5: escapeHtml of a text is the text with each of & < > " replaced by its
\* entity and every other character kept, the ampersands of the entities not
\* escaped again; and the <h2> of a card holds the title escaped that way,
\* so it holds no < and no > character.
EscapesEachCharacterOnce ==
    /\ pc = "escaped" /\ IsText(value) => result = EscapedText(value.s)
    /\ pc = "rendered" /\ Len(fetched) = 1 /\ IsText(fetched[1].Title) =>
          LET h2 == Between(result, H2Open, H2Close)
          IN  /\ h2 = EscapedText(fetched[1].Title.s)
              /\ \A i \in DOMAIN h2 : h2[i] \notin {"<", ">", "\""}

EscapesEachCharacterOnceWitness ==
    /\ pc = "rendered"
    /\ Len(fetched) = 1
    /\ fetched[1].Title = Str(<<"<", "a", ">">>)
    /\ Between(result, H2Open, H2Close) = LtEntity \o <<"a">> \o GtEntity

\* C6: escapeHtml of null or of undefined is the empty string.
EscapeOfNothingIsEmpty ==
    pc = "escaped" /\ value \in {Null, Undefined} => result = << >>

\* C7: the class attribute of a record's <section> is "card highlight" when
\* its highlight field is truthy and "card" otherwise.
ClassAttributeExact ==
    pc = "rendered" /\ Len(fetched) = 1 =>
        Between(result, SectionOpen, AttrClose) =
            IF fetched[1].Highlight \in {Bool(TRUE), Num(1)}
            THEN <<"c", "a", "r", "d", " ", "h", "i", "g", "h", "l", "i", "g", "h", "t">>
            ELSE <<"c", "a", "r", "d">>

\* C8: the <title> of the document is the first non-empty of the escaped SEO
\* title, the escaped hero title and "Simple Web"; an empty SEO title falls
\* back as an absent one does; the hero title used is escaped once.
TitleFallback ==
    Assembled =>
        LET g == globalsOf(globalsRecords)
            seo == escapeHtml(g.SEOTitle)
            hero == IF IsText(g.HeroTitle) THEN EscapedText(g.HeroTitle.s) ELSE << >>
            fallback == IF hero # << >> THEN hero ELSE DefaultTitle
        IN  /\ Between(html, TitleOpen, TitleClose) = seoTitle
            /\ Between(html, H1Open, H1Close) = heroTitle
            /\ heroTitle = hero
            /\ seoTitle = IF seo # << >> THEN seo ELSE fallback
            /\ Missing(g.SEOTitle) => seoTitle = fallback

TitleFallbackWitness ==
    /\ Assembled
    /\ globalsOf(globalsRecords).SEOTitle = Str(<< >>)
    /\ globalsOf(globalsRecords).HeroTitle = Str(<<"<">>)
    /\ Between(html, TitleOpen, TitleClose) = LtEntity

\* C9: a card holds one <li> per non-empty bullet, in slot order, inside a
\* single <ul>, and neither <ul> nor <li> when no bullet is non-empty.
BulletList ==
    pc = "rendered" /\ Len(fetched) = 1 =>
        LET f == fetched[1]
            item(b) == IF NonEmptyText(b)
                       THEN << LiOpen >> \o EscapedText(b.s) \o << LiClose >>
                       ELSE << >>
            items == item(f.Bullet1) \o item(f.Bullet2) \o item(f.Bullet3)
        IN  IF items # << >>
            THEN /\ Count(result, UlOpen) = 1
                 /\ Count(result, UlClose) = 1
                 /\ Between(result, UlOpen, UlClose) = items
            ELSE /\ Count(result, UlOpen) = 0
                 /\ Count(result, UlClose) = 0
                 /\ Count(result, LiOpen) = 0

BulletListWitness ==
    /\ pc = "rendered"
    /\ Len(fetched) = 1
    /\ fetched[1].Bullet1 = Str(<<"a">>)
    /\ fetched[1].Bullet2 = Str(<< >>)
    /\ fetched[1].Bullet3 = Str(<<"<">>)
    /\ Count(result, UlOpen) = 1
    /\ Count(result, LiOpen) = 2

\* C10: after renderCards returns, the array it was given holds the records
\* it held before the call, in the same positions.
InputUnchanged ==
    pc = "rendered" => sectionsRecords = fetched

====
